---------------------------- MODULE Spec2Model ----------------------------
(***************************************************************************)
(* A model of fnm's platform identifiers (src/arch.rs) and of its layered  *)
(* configuration and directory layout (src/config.rs).                     *)
(*                                                                         *)
(* Two specifications share the variables:                                 *)
(*   SpecArch  the pure functions of arch.rs (FromStr, Display,            *)
(*             get_safe_arch) applied to inputs drawn from bounded sets;   *)
(*   Spec      one process invocation: the configuration is constructed    *)
(*             from flags, environment and host defaults, and then the     *)
(*             directory accessors run against a file system.              *)
(***************************************************************************)
EXTENDS Naturals, Sequences, FiniteSets, TLC

VARIABLES
    host,     \* what host probing reports: family, os, arch, distro, home
    args,     \* command-line flags given, None where a flag is absent
    env,      \* environment variables set, None where one is unset
    pc,       \* "start" | "running" | "exited" (Spec), "pure" (SpecArch)
    outcome,  \* how construction / the last accessor ended
    cfg,      \* Some(the FnmConfig record) once constructed, else None
    fs,       \* the file system: directories, plain files, denied paths
    created,  \* history: every directory the process has created
    last,     \* the last directory accessor call and what it returned
    ncalls,   \* number of accessor calls so far
    call      \* SpecArch: the last pure-function application

vars == <<host, args, env, pc, outcome, cfg, fs, created, last, ncalls, call>>

\* Option<T>: None is the empty tuple, Some(v) the one-element tuple.
None == <<>>
Some(v) == <<v>>
IsSome(x) == x # <<>>
Unwrap(x) == x[1]

NoCall == [fn |-> "none"]
NoOutcome == [kind |-> "none"]
NoAccess == [acc |-> "none", kind |-> "none", path |-> <<>>, streak |-> 0]

(***************************************************************************)
(* Bounds                                                                  *)
(***************************************************************************)
\* Semantic-version majors range over 0..MaxMajor.
MaxMajor == 17
\* At most this many flags / environment variables are given per invocation.
MaxOverrides == 3
\* At most this many directory accessor calls per invocation.
MaxCalls == 3

(***************************************************************************)
(* arch.rs: the closed variant sets                                        *)
(***************************************************************************)
Arch == {"Arch::X86", "Arch::X64", "Arch::Arm64", "Arch::Armv7l",
         "Arch::Ppc64le", "Arch::Ppc64", "Arch::S390x"}

LibC == {"LibC::Musl", "LibC::Glibc"}

Ok(v) == [ok |-> TRUE, val |-> v]
Err(kind, details) == [ok |-> FALSE, kind |-> kind, details |-> details]

\* ArchError::new / LibCError::new: the error carries the message as details.
ArchError(msg) == Err("ArchError", msg)
LibCError(msg) == Err("LibCError", msg)

\* impl FromStr for Arch.  (Variant: capitalised tokens are accepted too.)
Arch_from_str_caseless(s) ==
    CASE s \in {"x86", "X86"}         -> Ok("Arch::X86")
      [] s \in {"x64", "X64"}         -> Ok("Arch::X64")
      [] s \in {"arm64", "Arm64"}     -> Ok("Arch::Arm64")
      [] s \in {"armv7l", "Armv7l"}   -> Ok("Arch::Armv7l")
      [] s \in {"ppc64le", "Ppc64le"} -> Ok("Arch::Ppc64le")
      [] s \in {"ppc64", "Ppc64"}     -> Ok("Arch::Ppc64")
      [] s \in {"s390x", "S390x"}     -> Ok("Arch::S390x")
      [] OTHER -> ArchError("Unknown Arch: " \o s)

\* impl FromStr for Arch
Arch_from_str(s) ==
    CASE s = "x86"     -> Ok("Arch::X86")
      [] s = "x64"     -> Ok("Arch::X64")
      [] s = "arm64"   -> Ok("Arch::Arm64")
      [] s = "armv7l"  -> Ok("Arch::Armv7l")
      [] s = "ppc64le" -> Ok("Arch::Ppc64le")
      [] s = "ppc64"   -> Ok("Arch::Ppc64")
      [] s = "s390x"   -> Ok("Arch::S390x")
      [] OTHER -> ArchError("Unknown Arch: " \o s)

\* Variant of FromStr for LibC: an unknown token falls back to glibc.
LibC_from_str_fallback(s) ==
    CASE s = "musl"  -> Ok("LibC::Musl")
      [] OTHER -> Ok("LibC::Glibc")

\* impl FromStr for LibC
LibC_from_str(s) ==
    CASE s = "musl"  -> Ok("LibC::Musl")
      [] s = "glibc" -> Ok("LibC::Glibc")
      [] OTHER -> LibCError("Unknown LibC: " \o s)

\* Variant of Display for Arch: ppc64le is written as ppc64.
Arch_fmt_ppc(a) ==
    CASE a = "Arch::X86"     -> "x86"
      [] a = "Arch::X64"     -> "x64"
      [] a = "Arch::Arm64"   -> "arm64"
      [] a = "Arch::Armv7l"  -> "armv7l"
      [] a = "Arch::Ppc64le" -> "ppc64"
      [] a = "Arch::Ppc64"   -> "ppc64"
      [] a = "Arch::S390x"   -> "s390x"

\* impl Display for Arch
Arch_fmt(a) ==
    CASE a = "Arch::X86"     -> "x86"
      [] a = "Arch::X64"     -> "x64"
      [] a = "Arch::Arm64"   -> "arm64"
      [] a = "Arch::Armv7l"  -> "armv7l"
      [] a = "Arch::Ppc64le" -> "ppc64le"
      [] a = "Arch::Ppc64"   -> "ppc64"
      [] a = "Arch::S390x"   -> "s390x"

\* impl Display for LibC
LibC_fmt(l) ==
    CASE l = "LibC::Musl"  -> "musl"
      [] l = "LibC::Glibc" -> "glibc"

\* impl DownloadPath for LibC
LibC_download_path(l) ==
    CASE l = "LibC::Musl"  -> "-musl"
      [] l = "LibC::Glibc" -> ""

(***************************************************************************)
(* arch.rs: get_safe_arch.  The function is compiled per target family:    *)
(* the unix build consults platform_name() and platform_arch(), the        *)
(* windows build returns the requested architecture.                       *)
(***************************************************************************)
Semver(major) == [kind |-> "Semver", major |-> major]

\* Variant: the host is not consulted on unix.
get_safe_arch_any_host(arch, version, h) ==
    IF h.family = "unix"
    THEN IF version.kind = "Semver" /\ version.major < 16
         THEN "Arch::X64"
         ELSE arch
    ELSE arch

get_safe_arch(arch, version, h) ==
    IF h.family = "unix"
    THEN IF /\ h.os = "darwin"
            /\ h.arch = "arm64"
            /\ version.kind = "Semver"
            /\ version.major < 16
         THEN "Arch::X64"
         ELSE arch
    ELSE arch

(***************************************************************************)
(* Inputs of the pure functions                                            *)
(***************************************************************************)
ArchTokens == {"x86", "x64", "arm64", "armv7l", "ppc64le", "ppc64", "s390x"}
LibCTokens == {"musl", "glibc"}

\* Tokens offered to the parsers: the canonical ones, case variants, the
\* empty string, near misses, and each parser's tokens offered to the other.
Tokens ==
    ArchTokens \cup LibCTokens \cup
    {"X64", "Arm64", "ARM64", "S390X", "Musl", "GLIBC", "", "amd64",
     "x64 ", " musl", "mips", "uclibc"}

Versions ==
    {Semver(m) : m \in 0..MaxMajor} \cup
    {[kind |-> "Lts", name |-> "lts"], [kind |-> "Alias", name |-> "default"],
     [kind |-> "Latest", name |-> "latest"]}

\* Hosts of SpecArch: a unix build on macOS or Linux, or a windows build.
ArchHosts ==
    {[family |-> f, os |-> o, arch |-> a, distro |-> "Macos", home |-> None] :
        f \in {"unix"}, o \in {"darwin", "linux"}, a \in {"arm64", "x64"}}
    \cup
    {[family |-> "windows", os |-> "windows", arch |-> a, distro |-> "Windows",
      home |-> None] : a \in {"arm64", "x64"}}

NoFs == [dirs |-> {<<>>}, files |-> {}, denied |-> {}]

InitArch ==
    /\ host \in ArchHosts
    /\ args = None /\ env = None /\ pc = "pure" /\ outcome = NoOutcome
    /\ cfg = None /\ fs = NoFs /\ created = {} /\ last = NoAccess
    /\ ncalls = 0
    /\ call = NoCall

unchangedConfig ==
    UNCHANGED <<host, args, env, pc, outcome, cfg, fs, created, last, ncalls>>

\* s.parse::<Arch>()
ParseArch(s) ==
    /\ pc = "pure"
    /\ call' = [fn |-> "Arch::from_str", arg |-> s, out |-> Arch_from_str(s)]
    /\ unchangedConfig

\* s.parse::<LibC>()
ParseLibC(s) ==
    /\ pc = "pure"
    /\ call' = [fn |-> "LibC::from_str", arg |-> s, out |-> LibC_from_str(s)]
    /\ unchangedConfig

\* a.to_string().parse::<Arch>()
RoundTripArch(a) ==
    /\ pc = "pure"
    /\ call' = [fn |-> "Arch::roundtrip", arg |-> a, text |-> Arch_fmt(a),
                out |-> Arch_from_str(Arch_fmt(a))]
    /\ unchangedConfig

\* l.to_string().parse::<LibC>()
RoundTripLibC(l) ==
    /\ pc = "pure"
    /\ call' = [fn |-> "LibC::roundtrip", arg |-> l, text |-> LibC_fmt(l),
                out |-> LibC_from_str(LibC_fmt(l))]
    /\ unchangedConfig

\* get_safe_arch(&a, &v) on the host of this run
SafeArch(a, v) ==
    /\ pc = "pure"
    /\ call' = [fn |-> "get_safe_arch", arg |-> a, version |-> v,
                out |-> get_safe_arch(a, v, host)]
    /\ unchangedConfig

NextArch ==
    \/ \E s \in Tokens : ParseArch(s)
    \/ \E s \in Tokens : ParseLibC(s)
    \/ \E a \in Arch : RoundTripArch(a)
    \/ \E l \in LibC : RoundTripLibC(l)
    \/ \E a \in Arch, v \in Versions : SafeArch(a, v)

SpecArch == InitArch /\ [][NextArch]_vars


(***************************************************************************)
(* arch.rs: host-detection defaults                                        *)
(***************************************************************************)
\* Variant of Default for Arch: an unrecognised host falls back to x64.
Arch_default_fallback(h) ==
    LET r == Arch_from_str(h.arch)
    IN  IF r.ok THEN Ok(r.val) ELSE Ok("Arch::X64")

\* impl Default for Arch: parse platform_arch(), panic with the error's
\* details when the token is not a variant.
Arch_default(h) ==
    LET r == Arch_from_str(h.arch)
    IN  IF r.ok THEN Ok(r.val) ELSE Err("panic", r.details)

\* impl Default for LibC: musl on Alpine, glibc everywhere else.
LibC_default(h) ==
    IF h.distro = "Alpine" THEN "LibC::Musl" ELSE "LibC::Glibc"

(***************************************************************************)
(* config.rs: defaults and field parsers                                   *)
(***************************************************************************)
OfficialMirror == "https://nodejs.org/dist/"
UnofficialMirror == "https://unofficial-builds.nodejs.org/download/release/"

\* default_node_dist_mirror(): chosen by LibC::default(), the host's libc.
default_node_dist_mirror(h) ==
    CASE LibC_default(h) = "LibC::Glibc" -> OfficialMirror
      [] LibC_default(h) = "LibC::Musl"  -> UnofficialMirror

\* The node_dist_mirror field is a reqwest::Url: a value without a scheme
\* does not parse (a relative URL without a base).
HasScheme(s) ==
    \/ Len(s) >= 8 /\ SubSeq(s, 1, 8) = "https://"
    \/ Len(s) >= 7 /\ SubSeq(s, 1, 7) = "http://"

Url_parse(s) ==
    IF HasScheme(s) THEN Ok([url |-> s])
    ELSE Err("ParseError", "relative URL without a base: " \o s)

\* The log_level field is a LogLevel, parsed from its token.
LogLevel_from_str(s) ==
    CASE s = "quiet" -> Ok("LogLevel::Quiet")
      [] s = "info"  -> Ok("LogLevel::Info")
      [] s = "error" -> Ok("LogLevel::Error")
      [] OTHER -> Err("LogLevelError", "Unsupported log level " \o s)

Opts == {"node_dist_mirror", "base_dir", "log_level", "arch", "libc"}

\* The default_value of each option, as the string clap is given; base_dir
\* is an Option with no default value.
DefaultValue(o, h) ==
    CASE o = "node_dist_mirror" -> Some(default_node_dist_mirror(h))
      [] o = "base_dir"         -> None
      [] o = "log_level"        -> Some("info")
      [] o = "arch"             -> Some(Arch_fmt(Arch_default(h).val))
      [] o = "libc"             -> Some(LibC_fmt(LibC_default(h)))

\* Variant: the environment variable wins over the flag.
RawValue_env_first(o, a, e, h) ==
    IF IsSome(e[o]) THEN e[o]
    ELSE IF IsSome(a[o]) THEN a[o]
    ELSE DefaultValue(o, h)

\* #[structopt(long, env = ...)]: the flag wins over the environment
\* variable, which wins over the default value.
RawValue(o, a, e, h) ==
    IF IsSome(a[o]) THEN a[o]
    ELSE IF IsSome(e[o]) THEN e[o]
    ELSE DefaultValue(o, h)

\* Each field's conversion from the value clap hands over; base_dir is an
\* Option<PathBuf>, which takes any value or none.
ParseField(o, raw) ==
    CASE o = "node_dist_mirror" -> Url_parse(Unwrap(raw))
      [] o = "base_dir"         -> Ok(raw)
      [] o = "log_level"        -> LogLevel_from_str(Unwrap(raw))
      [] o = "arch"             -> Arch_from_str(Unwrap(raw))
      [] o = "libc"             -> LibC_from_str(Unwrap(raw))

(***************************************************************************)
(* The file system and directory creation                                  *)
(***************************************************************************)
\* A path is the sequence of its components below the root; join appends
\* one component.
join(p, c) == Append(p, c)

Prefixes(p) == {SubSeq(p, 1, i) : i \in 1..Len(p)}

\* Create p and every missing parent, outermost first.  A component that is
\* a plain file, or whose creation is denied, fails the call; parents made
\* before the failure stay.
RECURSIVE create_dir_from(_, _, _)
create_dir_from(p, i, f) ==
    IF i > Len(p) THEN [ok |-> TRUE, fs |-> f]
    ELSE LET q == SubSeq(p, 1, i)
         IN  IF q \in f.dirs THEN create_dir_from(p, i + 1, f)
             ELSE IF q \in f.files \/ q \in f.denied
                  THEN [ok |-> FALSE, fs |-> f]
                  ELSE create_dir_from(p, i + 1,
                                       [f EXCEPT !.dirs = @ \cup {q}])

create_dir_all(p, f) == create_dir_from(p, 1, f)

\* Variant: a creation failure is dropped and the path handed back.
ensure_exists_swallowing(p, f) ==
    LET r == create_dir_all(p, f)
    IN  [kind |-> "ok", path |-> p, fs |-> r.fs]

\* PathExt::ensure_exists_silently: make the directory, hand the path back;
\* a creation failure is an I/O error that ends the accessor.
ensure_exists_silently(p, f) ==
    LET r == create_dir_all(p, f)
    IN  IF r.ok THEN [kind |-> "ok", path |-> p, fs |-> r.fs]
        ELSE [kind |-> "io_error", path |-> <<>>, fs |-> r.fs]

(***************************************************************************)
(* config.rs: the directory accessors.  Each takes the configuration, the  *)
(* host and the file system and returns how it ended, the path and the     *)
(* file system it leaves.                                                  *)
(***************************************************************************)
temp_dir == <<"tmp">>

base_dir_with_default(c, h, f) ==
    IF IsSome(c.base_dir) THEN ensure_exists_silently(Unwrap(c.base_dir), f)
    ELSE IF IsSome(h.home)
         THEN ensure_exists_silently(join(Unwrap(h.home), ".fnm"), f)
         ELSE [kind |-> "panic", path |-> <<>>, fs |-> f]

\* Variant: the joined path is returned without being created.
installations_dir_unchecked(c, h, f) ==
    LET b == base_dir_with_default(c, h, f)
    IN  IF b.kind # "ok" THEN b
        ELSE [b EXCEPT !.path = join(b.path, "node-versions")]

installations_dir(c, h, f) ==
    LET b == base_dir_with_default(c, h, f)
    IN  IF b.kind # "ok" THEN b
        ELSE ensure_exists_silently(join(b.path, "node-versions"), b.fs)

aliases_dir(c, h, f) ==
    LET b == base_dir_with_default(c, h, f)
    IN  IF b.kind # "ok" THEN b
        ELSE ensure_exists_silently(join(b.path, "aliases"), b.fs)

\* aliases_dir().join("default"): the joined path is returned as it is.
default_version_dir(c, h, f) ==
    LET a == aliases_dir(c, h, f)
    IN  IF a.kind # "ok" THEN a
        ELSE [a EXCEPT !.path = join(a.path, "default")]

\* Variant: every call makes a new numbered directory under the base.
multishell_base_dir_fresh(c, h, f) ==
    LET b == ensure_exists_silently(join(temp_dir, "fnm_multishell"), f)
    IN  IF b.kind # "ok" THEN b
        ELSE ensure_exists_silently(
                 join(b.path, IF join(b.path, "1") \in b.fs.dirs THEN "2" ELSE "1"),
                 b.fs)

multishell_base_dir(c, h, f) ==
    ensure_exists_silently(join(temp_dir, "fnm_multishell"), f)

Accessors == {"base_dir_with_default", "installations_dir", "aliases_dir",
              "default_version_dir", "multishell_base_dir"}

Accessor(name, c, h, f) ==
    CASE name = "base_dir_with_default" -> base_dir_with_default(c, h, f)
      [] name = "installations_dir"     -> installations_dir(c, h, f)
      [] name = "aliases_dir"           -> aliases_dir(c, h, f)
      [] name = "default_version_dir"   -> default_version_dir(c, h, f)
      [] name = "multishell_base_dir"   -> multishell_base_dir(c, h, f)

(***************************************************************************)
(* Inputs of one invocation                                                *)
(***************************************************************************)
FlagValues(o) ==
    CASE o = "node_dist_mirror" -> {"https://mirror.example/node/", "not a url"}
      [] o = "base_dir"         -> {<<"opt", "fnm">>}
      [] o = "log_level"        -> {"quiet"}
      [] o = "arch"             -> {"x86", "X64"}
      [] o = "libc"             -> {"musl", "Musl"}

EnvValues(o) ==
    CASE o = "node_dist_mirror" -> {"https://env.example/dist/"}
      [] o = "base_dir"         -> {<<"srv", "fnm">>}
      [] o = "log_level"        -> {"error"}
      [] o = "arch"             -> {"arm64"}
      [] o = "libc"             -> {"glibc", "uclibc"}

Given(r) == {o \in Opts : IsSome(r[o])}

Optional(S) == {None} \cup {Some(v) : v \in S}

ArgSets ==
    [node_dist_mirror : Optional(FlagValues("node_dist_mirror")),
     base_dir         : Optional(FlagValues("base_dir")),
     log_level        : Optional(FlagValues("log_level")),
     arch             : Optional(FlagValues("arch")),
     libc             : Optional(FlagValues("libc"))]

EnvSets ==
    [node_dist_mirror : Optional(EnvValues("node_dist_mirror")),
     base_dir         : Optional(EnvValues("base_dir")),
     log_level        : Optional(EnvValues("log_level")),
     arch             : Optional(EnvValues("arch")),
     libc             : Optional(EnvValues("libc"))]

\* Hosts of Spec: Linux machines, Alpine or not, with a recognised or an
\* unrecognised processor token, with or without a resolvable home.
ConfigHosts ==
    {[family |-> "unix", os |-> "linux", arch |-> a, distro |-> d, home |-> hm] :
        a \in {"x64", "mips"}, d \in {"Alpine", "Ubuntu"},
        hm \in {None, Some(<<"home", "u">>)}}

BaseDirs == {<<"opt", "fnm">>, <<"srv", "fnm">>, <<"home", "u", ".fnm">>}
SystemDirs == {<<>>, <<"tmp">>, <<"home">>, <<"home", "u">>}
LayoutDirs ==
    UNION {Prefixes(b) : b \in BaseDirs} \cup
    {join(b, d) : b \in BaseDirs, d \in {"node-versions", "aliases"}} \cup
    {join(temp_dir, "fnm_multishell")}

\* File systems an invocation may start on: nothing made yet, everything
\* already there, a plain file where a directory is wanted, or a parent in
\* which nothing may be created.
InitialFileSystems ==
    { [dirs |-> SystemDirs, files |-> {}, denied |-> {}],
      [dirs |-> SystemDirs \cup LayoutDirs, files |-> {}, denied |-> {}],
      [dirs |-> SystemDirs, files |-> BaseDirs, denied |-> {}],
      [dirs |-> SystemDirs \cup UNION {Prefixes(b) : b \in BaseDirs},
       files |-> {join(b, "aliases") : b \in BaseDirs}, denied |-> {}],
      [dirs |-> SystemDirs, files |-> {},
       denied |-> {join(b, "node-versions") : b \in BaseDirs}],
      [dirs |-> SystemDirs, files |-> {join(temp_dir, "fnm_multishell")},
       denied |-> {<<"opt">>, <<"srv">>}] }

Init ==
    /\ host \in ConfigHosts
    /\ args \in ArgSets
    /\ env \in EnvSets
    /\ Cardinality(Given(args)) + Cardinality(Given(env)) <= MaxOverrides
    /\ fs \in InitialFileSystems
    /\ pc = "start"
    /\ outcome = NoOutcome
    /\ cfg = None
    /\ created = {}
    /\ last = NoAccess
    /\ ncalls = 0
    /\ call = NoCall

\* FnmConfig::from_args(): clap is given every default_value (computing the
\* architecture default panics on an unrecognised host), then every given
\* value is validated by its field's parser, then the record is built.
Construct ==
    /\ pc = "start"
    /\ IF ~Arch_default(host).ok
       THEN /\ outcome' = [kind |-> "panic", details |-> Arch_default(host).details]
            /\ pc' = "exited"
            /\ cfg' = None
       ELSE LET raw == [o \in Opts |-> RawValue(o, args, env, host)]
                parsed == [o \in Opts |-> ParseField(o, raw[o])]
                bad == {o \in Opts : ~parsed[o].ok}
            IN  IF bad # {}
                THEN /\ \E o \in bad :
                          outcome' = [kind |-> "validation_error", option |-> o,
                                      value |-> Unwrap(raw[o]),
                                      details |-> parsed[o].details]
                     /\ pc' = "exited"
                     /\ cfg' = None
                ELSE /\ outcome' = [kind |-> "ok"]
                     /\ pc' = "running"
                     /\ cfg' = Some([o \in Opts |-> parsed[o].val])
    /\ UNCHANGED <<host, args, env, fs, created, last, ncalls, call>>

\* One call of a directory accessor on the constructed configuration.  A
\* call that does not return a path ends the invocation.
CallAccessor(name) ==
    /\ pc = "running"
    /\ ncalls < MaxCalls
    /\ LET r == Accessor(name, Unwrap(cfg), host, fs)
       IN  /\ fs' = r.fs
           /\ created' = created \cup (r.fs.dirs \ fs.dirs)
           /\ last' = [acc |-> name, kind |-> r.kind, path |-> r.path,
                       streak |-> IF last.acc = name THEN last.streak + 1
                                  ELSE 1]
           /\ outcome' = [kind |-> r.kind]
           /\ pc' = IF r.kind = "ok" THEN "running" ELSE "exited"
    /\ ncalls' = ncalls + 1
    /\ UNCHANGED <<host, args, env, cfg, call>>

Next ==
    \/ Construct
    \/ \E name \in Accessors : CallAccessor(name)

Spec == Init /\ [][Next]_vars

(***************************************************************************)
(* Properties of the pure functions (checked under SpecArch)               *)
(***************************************************************************)
\* msg ends with the token tok.
NamesToken(msg, tok) ==
    /\ Len(msg) >= Len(tok)
    /\ SubSeq(msg, Len(msg) - Len(tok) + 1, Len(msg)) = tok

AppleSiliconBelow16(h, v) ==
    /\ h.os = "darwin"
    /\ h.arch = "arm64"
    /\ v.kind = "Semver"
    /\ v.major < 16

\* C1: get_safe_arch returns x64 exactly when the host is darwin/arm64 and
\* the version is a semantic version with major < 16, whatever architecture
\* was requested; in every other case (other hosts, the Windows family,
\* named versions, major >= 16) it returns the requested architecture
\* unchanged.  The result is always an Architecture, never an error.
C1_SafeArchRule ==
    call.fn = "get_safe_arch" =>
        /\ call.out \in Arch
        /\ call.out = IF AppleSiliconBelow16(host, call.version)
                      THEN "Arch::X64"
                      ELSE call.arg

C1_Witness ==
    /\ call.fn = "get_safe_arch"
    /\ host.os = "darwin" /\ host.arch = "arm64"
    /\ call.version = Semver(15)
    /\ call.arg = "Arch::Arm64"
    /\ call.out = "Arch::X64"

\* C2: for each Architecture variant and each LibC variant, parsing the
\* formatted token succeeds and gives the variant back.
C2_RoundTrip ==
    call.fn \in {"Arch::roundtrip", "LibC::roundtrip"} =>
        call.out = Ok(call.arg)

C2_Witness ==
    /\ call.fn = "Arch::roundtrip"
    /\ call.arg = "Arch::Ppc64le"
    /\ call.text = "ppc64le"
    /\ call.out.ok

\* C3: parsing is a case-sensitive exact match: a token outside the
\* canonical lowercase set (case variants and the empty string included)
\* gives an error value naming the token, never a variant.
C3_ParseRejects ==
    /\ (call.fn = "Arch::from_str" /\ call.arg \notin ArchTokens) =>
           /\ ~call.out.ok
           /\ call.out.kind = "ArchError"
           /\ NamesToken(call.out.details, call.arg)
    /\ (call.fn = "LibC::from_str" /\ call.arg \notin LibCTokens) =>
           /\ ~call.out.ok
           /\ call.out.kind = "LibCError"
           /\ NamesToken(call.out.details, call.arg)

C3_Witness ==
    /\ call.fn = "Arch::from_str"
    /\ call.arg = "X64"
    /\ ~call.out.ok
    /\ call.out.details = "Unknown Arch: X64"

(***************************************************************************)
(* Properties of one invocation (checked under Spec)                       *)
(***************************************************************************)
Constructed == IsSome(cfg)

\* The value an option takes by flag > environment > default.
Layered(o) ==
    IF IsSome(args[o]) THEN args[o]
    ELSE IF IsSome(env[o]) THEN env[o]
    ELSE DefaultValue(o, host)

\* <home>/.fnm, or the root where no home directory resolves (no accessor
\* returns a path under it then).
HomeDefault ==
    IF IsSome(host.home) THEN Unwrap(host.home) \o <<".fnm">> ELSE <<>>

\* The install root an invocation is meant to use, and the documented
\* location of each accessor's directory under it.
InstallRoot ==
    IF IsSome(args.base_dir) THEN Unwrap(args.base_dir)
    ELSE IF IsSome(env.base_dir) THEN Unwrap(env.base_dir)
    ELSE HomeDefault

Location(acc) ==
    CASE acc = "base_dir_with_default" -> InstallRoot
      [] acc = "installations_dir"     -> InstallRoot \o <<"node-versions">>
      [] acc = "aliases_dir"           -> InstallRoot \o <<"aliases">>
      [] acc = "default_version_dir"   -> InstallRoot \o <<"aliases", "default">>
      [] acc = "multishell_base_dir"   -> <<"tmp", "fnm_multishell">>

Returned == last.acc # "none" /\ last.kind = "ok"

\* C4: with no mirror given by flag or environment, the configured mirror
\* follows the resolved libc: the unofficial-builds URL iff the resolved
\* libc is musl, the official URL otherwise.
C4_MirrorFollowsResolvedLibc ==
    (Constructed /\ args.node_dist_mirror = None /\ env.node_dist_mirror = None) =>
        Unwrap(cfg).node_dist_mirror =
            [url |-> IF Unwrap(cfg).libc = "LibC::Musl"
                     THEN "https://unofficial-builds.nodejs.org/download/release/"
                     ELSE "https://nodejs.org/dist/"]

Target(acc) ==
    IF acc = "default_version_dir" THEN Location("aliases_dir")
    ELSE Location(acc)

\* Some component of p is not a directory and cannot become one: a plain
\* file is in its place, or its creation is refused.
CreationFails(p) ==
    \E q \in Prefixes(p) : q \notin fs.dirs /\ (q \in fs.files \/ q \in fs.denied)

HasRoot == IsSome(args.base_dir) \/ IsSome(env.base_dir) \/ IsSome(host.home)

C7_Layering ==
    /\ Constructed =>
           \A o \in Opts : Unwrap(cfg)[o] = ParseField(o, Layered(o)).val
    /\ (Returned /\ last.acc = "base_dir_with_default") =>
           /\ last.path = InstallRoot
           /\ (last.path = HomeDefault) =>
                  (args.base_dir = None /\ env.base_dir = None)

C7_Witness ==
    /\ Constructed
    /\ args.arch = Some("x86") /\ env.arch = Some("arm64")
    /\ Unwrap(cfg).arch = "Arch::X86"
    /\ Returned /\ last.acc = "base_dir_with_default"
    /\ args.base_dir = None /\ env.base_dir = Some(<<"srv", "fnm">>)
    /\ IsSome(host.home)
    /\ last.path = <<"srv", "fnm">>

\* C8: on a host whose processor token is not an Architecture, startup ends
\* in a panic whose message names the token; no configuration exists and no
\* accessor runs.
C8_UnknownHostIsFatal ==
    (host.arch \notin ArchTokens /\ pc # "start") =>
        /\ pc = "exited"
        /\ outcome.kind = "panic"
        /\ NamesToken(outcome.details, host.arch)
        /\ cfg = None
        /\ ncalls = 0

C8_Witness ==
    /\ host.arch = "mips"
    /\ outcome.kind = "panic"
    /\ outcome.details = "Unknown Arch: mips"
    /\ IsSome(args.arch)

\* C9: calling the same accessor again right after it returned gives the
\* same path, does not fail, and leaves the set of directories unchanged.
C9_Idempotent ==
    [][(ncalls' = ncalls + 1 /\ last'.acc = last.acc /\ last.kind = "ok") =>
           /\ last'.kind = "ok"
           /\ last'.path = last.path
           /\ fs' = fs
           /\ created' = created]_vars

C9_Witness ==
    /\ last.acc = "aliases_dir"
    /\ last.streak = 2
    /\ last.kind = "ok"
    /\ <<"opt", "fnm", "aliases">> \in created

\* The override of an option that takes effect, None where none is given.
Override(o) == IF IsSome(args[o]) THEN args[o] ELSE env[o]

\* The override of o that takes effect is a value no parser accepts.
Malformed(o) ==
    /\ IsSome(Override(o))
    /\ CASE o = "arch" -> Unwrap(Override(o)) \notin ArchTokens
         [] o = "libc" -> Unwrap(Override(o)) \notin LibCTokens
         [] o = "node_dist_mirror" -> Unwrap(Override(o)) = "not a url"
         [] OTHER -> FALSE

\* C10: a malformed override is rejected while the configuration is
\* constructed, before any directory accessor runs: the invocation ends
\* without a configuration, without an accessor call and without a created
\* directory, with a validation error that names a malformed value (on a
\* host whose architecture is not recognised the startup panic comes
\* first).  An invocation that ended with a validation error has created
\* no directory.
C10_ValidationBeforeDirectories ==
    /\ (pc # "start" /\ \E o \in Opts : Malformed(o)) =>
           /\ pc = "exited"
           /\ cfg = None
           /\ ncalls = 0
           /\ created = {}
           /\ outcome.kind =
                  IF host.arch \in ArchTokens THEN "validation_error" ELSE "panic"
           /\ outcome.kind = "validation_error" =>
                  /\ Malformed(outcome.option)
                  /\ outcome.value = Unwrap(Override(outcome.option))
    /\ outcome.kind = "validation_error" =>
           /\ pc = "exited"
           /\ cfg = None
           /\ ncalls = 0
           /\ created = {}

C10_Witness ==
    /\ outcome.kind = "validation_error"
    /\ outcome.option = "node_dist_mirror"
    /\ outcome.value = "not a url"
    /\ created = {}

=============================================================================
